---- MODULE Spec2Model ----
(***************************************************************************)
(* A model of "Public Transport/pt_finder.py": the stop-type classifier,   *)
(* the construction of the NaPTAN index, the radius query and the          *)
(* per-property loop of main().                                            *)
(*                                                                         *)
(* Conventions.  A CSV cell or Python value is a record with a "kind":     *)
(*   null (NaN / None), text (a str, as a sequence of characters),         *)
(*   num (a finite number, here an integer), inf (a float infinity).       *)
(* Angles are kept in whole degrees; np.radians and the division and       *)
(* multiplication by EARTH_RADIUS_M are folded into MetresPerDegree.       *)
(***************************************************************************)
EXTENDS Integers, Sequences, FiniteSets, TLC

VARIABLES
    stop_type,      \* classifier harness: the argument of mode_from_stoptype
    mode,           \* classifier harness: the value returned ("pending" before the call)
    pc,             \* position of the running program
    csv,            \* the file at args.naptan_csv: [columns, rows]
    props,          \* the list loaded from args.properties_json
    args,           \* [radius_m, include_all_nearby, nearby_limit]
    idx,            \* main's NaptanIndex, Unset until built
    i,              \* number of entries of props the loop has taken
    point,          \* [id, lat, lon] of the entry being processed
    nearby_df,      \* the result set of the last query, empty before the first
    results,        \* main's list of output items
    exc,            \* the exception that ended the run, "none" otherwise
    geo,            \* a call of geocode_address: its arguments, position and calls made
    ovp             \* a call of run_overpass_query: its attempts and outcome

vars == <<stop_type, mode, pc, csv, props, args, idx, i, point, nearby_df, results, exc,
          geo, ovp>>

mainVars == <<csv, props, args, idx, i, point, nearby_df, results, exc>>

-----------------------------------------------------------------------------
(* Values *)

Null == [kind |-> "null"]
Inf == [kind |-> "inf"]
Num(n) == [kind |-> "num", val |-> n]
Text(s) == [kind |-> "text", chars |-> s]

Modes == {"bus", "rail", "metro", "tram", "ferry", "other"}

-----------------------------------------------------------------------------
(* Characters: str.strip() and str.upper() on ASCII text *)

LowerChars == <<"a","b","c","d","e","f","g","h","i","j","k","l","m",
                "n","o","p","q","r","s","t","u","v","w","x","y","z">>
UpperChars == <<"A","B","C","D","E","F","G","H","I","J","K","L","M",
                "N","O","P","Q","R","S","T","U","V","W","X","Y","Z">>

Whitespace == {" ", "\t", "\n", "\r"}

UpperChar(c) ==
    IF \E k \in 1..Len(LowerChars) : LowerChars[k] = c
    THEN UpperChars[CHOOSE k \in 1..Len(LowerChars) : LowerChars[k] = c]
    ELSE c

upper(s) == [k \in 1..Len(s) |-> UpperChar(s[k])]

strip(s) ==
    LET keep == {k \in 1..Len(s) : s[k] \notin Whitespace}
    IN  IF keep = {} THEN <<>>
        ELSE LET lo == CHOOSE k \in keep : \A j \in keep : k <= j
                 hi == CHOOSE k \in keep : \A j \in keep : k >= j
             IN  SubSeq(s, lo, hi)

startswith(s, p) == Len(s) >= Len(p) /\ SubSeq(s, 1, Len(p)) = p

contains(s, p) ==
    \E k \in 1..(Len(s) - Len(p) + 1) : SubSeq(s, k, k + Len(p) - 1) = p

-----------------------------------------------------------------------------
(* STOPTYPE_TO_MODE and mode_from_stoptype *)

BusCodes == {<<"B","C","T">>, <<"B","C","S">>, <<"B","S","T">>,
             <<"B","C","E">>, <<"B","C","Q">>}
RailCodes == {<<"R","L","Y">>, <<"R","S","E">>, <<"R","P","L">>}
MetroCodes == {<<"M","E","T">>, <<"M","T","R">>, <<"U","N","D">>}
TramCodes == {<<"T","R","M">>, <<"L","R","T">>}
FerryCodes == {<<"F","E","R">>, <<"F","T","D">>}

TableCodes == BusCodes \cup RailCodes \cup MetroCodes \cup TramCodes \cup FerryCodes

STOPTYPE_TO_MODE(s) ==
    CASE s \in BusCodes -> "bus"
      [] s \in RailCodes -> "rail"
      [] s \in MetroCodes -> "metro"
      [] s \in TramCodes -> "tram"
      [] s \in FerryCodes -> "ferry"

\* mutant: the substring rules are tried before the leading-letter rules
heuristic_mode_SubstringFirst(s) ==
    IF contains(s, <<"U","N","D","E","R">>) \/ contains(s, <<"M","E","T","R","O">>) THEN "metro"
    ELSE IF contains(s, <<"T","R","A","M">>) \/ contains(s, <<"L","I","G","H","T">>) THEN "tram"
    ELSE IF contains(s, <<"F","E","R","R">>) THEN "ferry"
    ELSE IF startswith(s, <<"B">>) THEN "bus"
    ELSE IF startswith(s, <<"R">>) THEN "rail"
    ELSE IF startswith(s, <<"M">>) THEN "metro"
    ELSE IF startswith(s, <<"T">>) THEN "tram"
    ELSE IF startswith(s, <<"F">>) THEN "ferry"
    ELSE "other"

heuristic_mode(s) ==
    IF startswith(s, <<"B">>) THEN "bus"
    ELSE IF startswith(s, <<"R">>) THEN "rail"
    ELSE IF startswith(s, <<"M">>) \/ contains(s, <<"U","N","D","E","R">>)
                                   \/ contains(s, <<"M","E","T","R","O">>) THEN "metro"
    ELSE IF startswith(s, <<"T">>) \/ contains(s, <<"T","R","A","M">>)
                                   \/ contains(s, <<"L","I","G","H","T">>) THEN "tram"
    ELSE IF startswith(s, <<"F">>) \/ contains(s, <<"F","E","R","R">>) THEN "ferry"
    ELSE "other"

\* mutant: no isinstance guard, so .strip() on a non-str raises
mode_from_stoptype_NoTypeGuard(v) ==
    IF v.kind # "text" THEN "AttributeError"
    ELSE LET s == upper(strip(v.chars))
         IN  IF s = <<>> THEN "other"
             ELSE IF s \in TableCodes THEN STOPTYPE_TO_MODE(s)
             ELSE heuristic_mode(s)

\* mutant: the table is consulted without upper-casing the code
mode_from_stoptype_NoUpper(v) ==
    IF v.kind # "text" THEN "other"
    ELSE LET s == strip(v.chars)
         IN  IF s = <<>> THEN "other"
             ELSE IF s \in TableCodes THEN STOPTYPE_TO_MODE(s)
             ELSE heuristic_mode(upper(s))

mode_from_stoptype(v) ==
    IF v.kind # "text" THEN "other"
    ELSE LET s == upper(strip(v.chars))
         IN  IF s = <<>> THEN "other"
             ELSE IF s \in TableCodes THEN STOPTYPE_TO_MODE(s)
             ELSE heuristic_mode(s)

-----------------------------------------------------------------------------
(* Classifier harness: inputs *)

MaxFrags == 2

Fragments ==
    { <<"B">>, <<"R">>, <<"M">>, <<"T">>, <<"F">>, <<"X">>, <<"b">>, <<"t">>, <<" ">>,
      <<"U","N","D","E","R">>, <<"M","E","T","R","O">>, <<"m","e","t","r","o">>,
      <<"T","R","A","M">>, <<"L","I","G","H","T">>, <<"F","E","R","R">>,
      <<"U","N","D">>, <<"L","R","T">>, <<"B","C","T">> }

RECURSIVE Concat(_)
Concat(ss) == IF ss = <<>> THEN <<>> ELSE Head(ss) \o Concat(Tail(ss))

FragStrings ==
    UNION { { Concat(fs) : fs \in [1..n -> Fragments] } : n \in 0..MaxFrags }

LowerChar(c) ==
    IF \E k \in 1..Len(UpperChars) : UpperChars[k] = c
    THEN LowerChars[CHOOSE k \in 1..Len(UpperChars) : UpperChars[k] = c]
    ELSE c

Paddings == { <<>>, <<" ">>, <<"\t", " ">>, <<"\n">> }

\* every spelling of a table code: any mix of letter case, any surrounding whitespace
CodeVariants ==
    { pre \o [k \in 1..Len(c) |-> IF k \in low THEN LowerChar(c[k]) ELSE c[k]] \o post :
        c \in TableCodes, low \in SUBSET (1..3), pre \in Paddings, post \in Paddings }

ClassifierInputs ==
    {Null, Inf, Num(0), Num(7)} \cup {Text(s) : s \in FragStrings \cup CodeVariants}

\* Python's None where a column name is expected
None == "None"

\* a variable of main that has not been assigned yet
Unset == [kind |-> "unset"]

InitClassify ==
    /\ stop_type \in ClassifierInputs
    /\ mode = "pending"
    /\ pc = "classify"
    /\ csv = Unset /\ props = <<>> /\ args = Unset /\ idx = Unset /\ i = 0
    /\ point = Unset /\ nearby_df = <<>> /\ results = <<>> /\ exc = "none"
    /\ geo = Unset /\ ovp = Unset

Classify ==
    /\ pc = "classify"
    /\ mode' = mode_from_stoptype(stop_type)
    /\ pc' = "classified"
    /\ UNCHANGED <<stop_type, mainVars, geo, ovp>>

NextClassify == Classify

SpecClassify == InitClassify /\ [][NextClassify]_vars

-----------------------------------------------------------------------------
(* Claims about the classifier, checked under SpecClassify *)

AllWhitespace(s) == \A k \in 1..Len(s) : s[k] \in Whitespace

\* C1 (classifier totality): whatever the argument (None/NaN, a number, an
\* infinity, the empty string, whitespace only, any string), the call returns
\* one of the six modes, never an exception; a non-string argument and a
\* string that is empty after trimming give "other".
C1_ClassifierTotality ==
    pc = "classified" =>
        /\ mode \in Modes
        /\ stop_type.kind # "text" => mode = "other"
        /\ (stop_type.kind = "text" /\ AllWhitespace(stop_type.chars)) => mode = "other"

C1_Witness ==
    /\ pc = "classified"
    /\ stop_type = Text(<<" ", " ">>)
    /\ mode = "other"

\* the table as the claim lists it
ClaimedTable ==
    << [code |-> <<"B","C","T">>, mode |-> "bus"],   [code |-> <<"B","C","S">>, mode |-> "bus"],
       [code |-> <<"B","S","T">>, mode |-> "bus"],   [code |-> <<"B","C","E">>, mode |-> "bus"],
       [code |-> <<"B","C","Q">>, mode |-> "bus"],   [code |-> <<"R","L","Y">>, mode |-> "rail"],
       [code |-> <<"R","S","E">>, mode |-> "rail"],  [code |-> <<"R","P","L">>, mode |-> "rail"],
       [code |-> <<"M","E","T">>, mode |-> "metro"], [code |-> <<"M","T","R">>, mode |-> "metro"],
       [code |-> <<"U","N","D">>, mode |-> "metro"], [code |-> <<"T","R","M">>, mode |-> "tram"],
       [code |-> <<"L","R","T">>, mode |-> "tram"],  [code |-> <<"F","E","R">>, mode |-> "ferry"],
       [code |-> <<"F","T","D">>, mode |-> "ferry"] >>

\* s spells code c up to letter case and surrounding whitespace
IsVariantOf(s, c) ==
    \E lo \in 1..Len(s) :
        /\ lo + Len(c) - 1 <= Len(s)
        /\ \A k \in 1..(lo - 1) : s[k] \in Whitespace
        /\ \A k \in (lo + Len(c))..Len(s) : s[k] \in Whitespace
        /\ \A k \in 1..Len(c) : s[lo + k - 1] \in {c[k], LowerChar(c[k])}

\* C2 (classifier exactness): every spelling of a code of the fixed table,
\* in any letter case and with any surrounding whitespace, is classified as
\* the table says, whatever the heuristics would have said.
C2_ClassifierExactness ==
    (pc = "classified" /\ stop_type.kind = "text") =>
        \A e \in 1..Len(ClaimedTable) :
            IsVariantOf(stop_type.chars, ClaimedTable[e].code) => mode = ClaimedTable[e].mode

\* "und" padded with whitespace: the heuristics alone would say "other"
C2_Witness ==
    /\ pc = "classified"
    /\ stop_type = Text(<<" ", "u", "N", "d", "\n">>)
    /\ mode = "metro"

\* the heuristic rules in the order the claim gives them
ClaimedRules(s) ==
    << [mode |-> "bus",   hit |-> Head(s) = "B"],
       [mode |-> "rail",  hit |-> Head(s) = "R"],
       [mode |-> "metro", hit |-> Head(s) = "M" \/ contains(s, <<"U","N","D","E","R">>)
                                                \/ contains(s, <<"M","E","T","R","O">>)],
       [mode |-> "tram",  hit |-> Head(s) = "T" \/ contains(s, <<"T","R","A","M">>)
                                                \/ contains(s, <<"L","I","G","H","T">>)],
       [mode |-> "ferry", hit |-> Head(s) = "F" \/ contains(s, <<"F","E","R","R">>)] >>

\* a non-empty string with no surrounding whitespace and no lower-case letter
IsTrimmedUpper(s) ==
    /\ s # <<>>
    /\ s[1] \notin Whitespace /\ s[Len(s)] \notin Whitespace
    /\ \A k \in 1..Len(s) : \A j \in 1..Len(LowerChars) : s[k] # LowerChars[j]

\* C3 (heuristic precedence): a trimmed, upper-case, non-empty string that is
\* not a table code gets the mode of the first rule that matches, in the order
\* bus, rail, metro, tram, ferry, and "other" when none matches.
C3_HeuristicPrecedence ==
    (pc = "classified" /\ stop_type.kind = "text" /\ IsTrimmedUpper(stop_type.chars)
        /\ \A e \in 1..Len(ClaimedTable) : ClaimedTable[e].code # stop_type.chars) =>
        LET rules == ClaimedRules(stop_type.chars)
            hits == {k \in 1..Len(rules) : rules[k].hit}
        IN  IF hits = {} THEN mode = "other"
            ELSE mode = rules[CHOOSE k \in hits : \A j \in hits : k <= j].mode

\* a leading R beats the substring METRO
C3_Witness ==
    /\ pc = "classified"
    /\ stop_type = Text(<<"R", "M", "E", "T", "R", "O">>)
    /\ mode = "rail"

-----------------------------------------------------------------------------
(* Outcomes of a call: a returned value or a raised exception *)

Return(v) == [ok |-> TRUE, value |-> v]
Raise(e) == [ok |-> FALSE, exc |-> e]

\* Python's exception hierarchy, as far as the program meets it: pandas'
\* EmptyDataError derives from ValueError
IsInstance(e, cls) ==
    \/ e = cls
    \/ e = "EmptyDataError" /\ cls = "ValueError"

-----------------------------------------------------------------------------
(* infer_col and the candidate column names *)

LatCandidates == <<"Latitude", "latitude", "LATITUDE", "Lat", "lat">>
LonCandidates == <<"Longitude", "longitude", "LONGITUDE", "Lon", "lon", "Long", "long">>
StopTypeCandidates == <<"StopType", "StopTypeCode", "stop_type", "Stop_Type", "StopTypeRef">>
NameCandidates == <<"CommonName", "commonname", "Name", "StopName", "Landmark", "LocalityName">>
AtcoCandidates == <<"ATCOCode", "AtcoCode", "atcocode", "NaptanCode", "NaPTANCode">>

infer_col(columns, candidates) ==
    LET hits == {k \in 1..Len(candidates) : candidates[k] \in columns}
    IN  IF hits = {} THEN None
        ELSE candidates[CHOOSE k \in hits : \A j \in hits : k <= j]

-----------------------------------------------------------------------------
(* pandas: read_csv, dropna, to_numeric *)

\* a file with no columns at all makes read_csv raise EmptyDataError
read_csv(file) ==
    IF file.columns = {} THEN Raise("EmptyDataError") ELSE Return(file)

Digits == <<"0", "1", "2", "3", "4", "5", "6", "7", "8", "9">>

IsDigit(c) == \E k \in 1..Len(Digits) : Digits[k] = c

DigitVal(c) == (CHOOSE k \in 1..Len(Digits) : Digits[k] = c) - 1

RECURSIVE ParseDigits(_)
ParseDigits(s) ==
    IF s = <<>> THEN 0
    ELSE 10 * ParseDigits(SubSeq(s, 1, Len(s) - 1)) + DigitVal(s[Len(s)])

\* pd.to_numeric(errors="coerce") on one cell: text that is no number becomes NaN
to_numeric(cell) ==
    IF cell.kind = "text"
    THEN LET s == strip(cell.chars)
         IN  IF s # <<>> /\ \A k \in 1..Len(s) : IsDigit(s[k])
             THEN Num(ParseDigits(s))
             ELSE Null
    ELSE cell

\* df.dropna(subset=...): the rows with no NaN in the subset, in their order;
\* a subset column the frame lacks is a KeyError
dropna(rows, columns, subset) ==
    IF ~(subset \subseteq columns) THEN Raise("KeyError")
    ELSE LET keep(r) == \A c \in subset : r[c].kind # "null"
         IN  Return(SelectSeq(rows, keep))

-----------------------------------------------------------------------------
(* sklearn: BallTree(coords, metric="haversine") *)

IsFinite(cell) == cell.kind = "num"

\* the constructor validates its data: an empty array and a non-finite
\* entry are both a ValueError
BallTree(coords) ==
    IF Len(coords) = 0 THEN Raise("ValueError")
    ELSE IF \E k \in 1..Len(coords) : ~IsFinite(coords[k].lat) \/ ~IsFinite(coords[k].lon)
         THEN Raise("ValueError")
    ELSE Return([k \in 1..Len(coords) |-> [lat |-> coords[k].lat.val, lon |-> coords[k].lon.val]])

-----------------------------------------------------------------------------
(* build_naptan_index *)

\* mutant: "and" for "or", so one resolved column is enough
coords_unresolved_And(lat_col, lon_col) == lat_col = None /\ lon_col = None

coords_unresolved(lat_col, lon_col) == lat_col = None \/ lon_col = None

\* lines 99-103: drop missing, coerce, drop what did not coerce
clean_coords(rows, columns, lat_col, lon_col) ==
    LET first == dropna(rows, columns, {lat_col, lon_col})
    IN  IF ~first.ok THEN first
        ELSE LET coerced == [k \in 1..Len(first.value) |->
                                [first.value[k] EXCEPT ![lat_col] = to_numeric(@),
                                                       ![lon_col] = to_numeric(@)]]
             IN  dropna(coerced, columns, {lat_col, lon_col})

\* lines 105-109: the derived _mode column
add_mode(rows, stoptype_col) ==
    [k \in 1..Len(rows) |->
        [c \in DOMAIN rows[k] \cup {"_mode"} |->
            IF c = "_mode"
            THEN IF stoptype_col # None THEN mode_from_stoptype(rows[k][stoptype_col])
                 ELSE "other"
            ELSE rows[k][c]]]

build_naptan_index(file) ==
    LET read == read_csv(file)
    IN  IF ~read.ok THEN read
        ELSE
        LET df == read.value
            lat_col == infer_col(df.columns, LatCandidates)
            lon_col == infer_col(df.columns, LonCandidates)
        IN  IF coords_unresolved(lat_col, lon_col) THEN Raise("ValueError")
            ELSE
            LET stoptype_col == infer_col(df.columns, StopTypeCandidates)
                name_col == infer_col(df.columns, NameCandidates)
                atco_col == infer_col(df.columns, AtcoCandidates)
                cleaned == clean_coords(df.rows, df.columns, lat_col, lon_col)
            IN  IF ~cleaned.ok THEN cleaned
                ELSE
                LET rows == add_mode(cleaned.value, stoptype_col)
                    coords == [k \in 1..Len(rows) |->
                                  [lat |-> rows[k][lat_col], lon |-> rows[k][lon_col]]]
                    tree == BallTree(coords)
                IN  IF ~tree.ok THEN tree
                    ELSE Return([tree |-> tree.value,
                                 df |-> rows,
                                 lat_col |-> lat_col,
                                 lon_col |-> lon_col,
                                 name_col |-> name_col,
                                 atco_col |-> atco_col,
                                 stoptype_col |-> stoptype_col])

-----------------------------------------------------------------------------
(* Great-circle distance.  Angles are whole degrees; the haversine formula  *)
(* is evaluated exactly on the pairs of points where it is a whole number   *)
(* of degrees: two points on the equator, two points on one meridian, or a  *)
(* pair with a pole in it.                                                   *)

\* EARTH_RADIUS_M * pi / 180, to the metre
MetresPerDegree == 111195

\* the central angle 2*asin(|sin(d/2)|) of a difference of d degrees
Fold(d) == LET m == d % 360 IN IF m > 180 THEN 360 - m ELSE m

haversine(a, b) ==
    CASE a.lat = 0 /\ b.lat = 0 -> Fold(a.lon - b.lon)
      [] (a.lon - b.lon) % 360 = 0 -> Fold(a.lat - b.lat)
      [] a.lat \in {-90, 90} \/ b.lat \in {-90, 90} -> Fold(a.lat - b.lat)

-----------------------------------------------------------------------------
(* query_nearby_stops *)

\* every order in which the members of a finite set can be listed
Orderings(S) ==
    {o \in [1..Cardinality(S) -> S] : \A j, k \in 1..Cardinality(S) : o[j] = o[k] => j = k}

\* mutant: the boundary is excluded
within_Strict(angle, radius_m) == angle * MetresPerDegree < radius_m

\* mutant: the comparison is turned round
within_Reversed(angle, radius_m) == angle * MetresPerDegree >= radius_m

\* angle <= radius_m / EARTH_RADIUS_M, both sides in metres
within(angle, radius_m) == angle * MetresPerDegree <= radius_m

\* tree.query_radius(point, r, return_distance=True): the ordinals (from 0)
\* and the distances of the points within r, in an order the tree chooses
query_radius(tree, pt, radius_m) ==
    LET ids == {k \in 1..Len(tree) : within(haversine(tree[k], pt), radius_m)}
    IN  { [k \in 1..Len(o) |-> [ind |-> o[k] - 1, dist |-> haversine(tree[o[k]], pt)]] :
            o \in Orderings(ids) }

\* mutant: the rows stay in the order the tree returned them
sort_values_Unsorted(out) == {out}

\* out.sort_values("dist_m"): ascending by distance; the default sort is not
\* stable, so rows at equal distance may come out in any order
sort_values(out) ==
    { [k \in 1..Len(out) |-> out[o[k]]] : o \in
        { o \in Orderings(1..Len(out)) :
            \A k \in 1..(Len(out) - 1) : out[o[k]].dist_m <= out[o[k + 1]].dist_m } }

\* lines 141-143: the row of idx.df at ordinal ind, with its distance, and
\* _mode renamed to mode; _ord remembers the ordinal, which reset_index drops
result_row(index, found) ==
    LET r == index.df[found.ind + 1]
    IN  [c \in (DOMAIN r \ {"_mode"}) \cup {"mode", "dist_m", "_ord"} |->
            CASE c = "mode" -> r["_mode"]
              [] c = "dist_m" -> found.dist * MetresPerDegree
              [] c = "_ord" -> found.ind
              [] OTHER -> r[c]]

\* the result sets a call may return
query_nearby_stops(lat, lon, index, radius_m) ==
    UNION { IF Len(found) = 0 THEN {<<>>}
            ELSE sort_values([k \in 1..Len(found) |-> result_row(index, found[k])]) :
            found \in query_radius(index.tree, [lat |-> lat, lon |-> lon], radius_m) }

-----------------------------------------------------------------------------
(* stops_to_records, nearest_by_mode, counts_by_mode *)

Min(a, b) == IF a <= b THEN a ELSE b
Max(a, b) == IF a >= b THEN a ELSE b

\* df.head(n): the first n rows, or all but the last -n when n is negative
head(df, n) ==
    IF n >= 0 THEN SubSeq(df, 1, Min(n, Len(df)))
    ELSE SubSeq(df, 1, Max(0, Len(df) + n))

\* the optional output fields and the index column each is read from
optional_fields(index) ==
    {f \in {[key |-> "stop_type", col |-> index.stoptype_col],
            [key |-> "name", col |-> index.name_col],
            [key |-> "atco_code", col |-> index.atco_col]} : f.col # None}

stop_record(r, index, with_mode) ==
    LET opt == {f \in optional_fields(index) : f.col \in DOMAIN r}
        base == {"distance_m", "lat", "lon"} \cup (IF with_mode THEN {"mode"} ELSE {})
    IN  [key \in base \cup {f.key : f \in opt} |->
            CASE key = "mode" -> r["mode"]
              [] key = "distance_m" -> r["dist_m"]
              [] key = "lat" -> r[index.lat_col].val
              [] key = "lon" -> r[index.lon_col].val
              [] OTHER -> r[(CHOOSE f \in opt : f.key = key).col]]

stops_to_records(df, index, limit) ==
    LET rows == IF limit \in Int THEN head(df, limit) ELSE df
    IN  [k \in 1..Len(rows) |-> stop_record(rows[k], index, TRUE)]

\* the last row of each group taken, where the code takes the first
nearest_by_mode_Last(df, index) ==
    [m \in {df[k]["mode"] : k \in 1..Len(df)} |->
        LET last == CHOOSE k \in 1..Len(df) :
                        /\ df[k]["mode"] = m
                        /\ \A j \in (k + 1)..Len(df) : df[j]["mode"] # m
        IN  stop_record(df[last], index, FALSE)]

\* groupby("mode"), g.iloc[0] of each group
nearest_by_mode(df, index) ==
    [m \in {df[k]["mode"] : k \in 1..Len(df)} |->
        LET first == CHOOSE k \in 1..Len(df) :
                        /\ df[k]["mode"] = m
                        /\ \A j \in 1..(k - 1) : df[j]["mode"] # m
        IN  stop_record(df[first], index, FALSE)]

\* a count for every mode there is, present or not
counts_by_mode_AllModes(df) ==
    [m \in Modes |-> Cardinality({k \in 1..Len(df) : df[k]["mode"] = m})]

\* df["mode"].value_counts().to_dict()
counts_by_mode(df) ==
    [m \in {df[k]["mode"] : k \in 1..Len(df)} |->
        Cardinality({k \in 1..Len(df) : df[k]["mode"] = m})]

-----------------------------------------------------------------------------
(* main *)

\* the spellings of infinity float() reads, whatever their case and padding
InfinityTexts == {<<"I","N","F">>, <<"I","N","F","I","N","I","T","Y">>}

\* float(p[key]): a missing key is a KeyError, None a TypeError, text that
\* is no number a ValueError; "inf" and "infinity" are read as infinity
to_float(p, key) ==
    IF key \notin DOMAIN p THEN Raise("KeyError")
    ELSE LET v == p[key]
         IN  CASE v.kind = "null" -> Raise("TypeError")
               [] v.kind = "text" ->
                    IF upper(strip(v.chars)) \in InfinityTexts THEN Return(Inf)
                    ELSE IF to_numeric(v).kind = "num" THEN Return(to_numeric(v))
                    ELSE Raise("ValueError")
               [] OTHER -> Return(v)

\* p.get("id")
get(p, key) == IF key \in DOMAIN p THEN p[key] ELSE None

\* the loop entered with the index still to be built
BuildIndex_Deferred ==
    /\ pc = "start"
    /\ pc' = "loop"
    /\ UNCHANGED <<stop_type, mode, csv, props, args, idx, i, point, nearby_df, results, exc,
                   geo, ovp>>

\* line 207, then lines 209-214: the index is built, then the properties are loaded
BuildIndex ==
    /\ pc = "start"
    /\ LET built == build_naptan_index(csv)
       IN  IF built.ok
           THEN idx' = built.value /\ pc' = "loop" /\ exc' = exc
           ELSE idx' = idx /\ pc' = "raised" /\ exc' = built.exc
    /\ UNCHANGED <<stop_type, mode, csv, props, args, i, point, nearby_df, results, geo, ovp>>

\* the found rows written back into the index's frame
index_after_query_InPlace(index, out) == [index EXCEPT !.df = out]

\* lines 135-144: iloc[...] and .copy() give the query a frame of its own;
\* dist_m, mode and the sort are applied to it and the index's frame is left alone
index_after_query(index, out) == index

\* lines 215-220: the next property's coordinates are read and its query runs;
\* query_radius validates the point, and a non-finite one is a ValueError
QueryPoint ==
    /\ pc = "loop"
    /\ i < Len(props)
    /\ LET p == props[i + 1]
           lat == to_float(p, "lat")
           lon == to_float(p, "lon")
       IN  IF ~lat.ok \/ ~lon.ok
           THEN /\ pc' = "raised"
                /\ exc' = (IF ~lat.ok THEN lat.exc ELSE lon.exc)
                /\ UNCHANGED <<point, nearby_df, idx>>
           ELSE IF ~IsFinite(lat.value) \/ ~IsFinite(lon.value)
           THEN /\ pc' = "raised"
                /\ exc' = "ValueError"
                /\ point' = [id |-> get(p, "id"), lat |-> lat.value, lon |-> lon.value]
                /\ UNCHANGED <<nearby_df, idx>>
           ELSE /\ \E out \in query_nearby_stops(lat.value.val, lon.value.val, idx, args.radius_m) :
                        /\ nearby_df' = out
                        /\ idx' = index_after_query(idx, out)
                /\ point' = [id |-> get(p, "id"), lat |-> lat.value, lon |-> lon.value]
                /\ pc' = "aggregate"
                /\ exc' = exc
    /\ UNCHANGED <<stop_type, mode, csv, props, args, i, results, geo, ovp>>

\* lines 222-232: the item of a property
item_of(pt, a, df, index) ==
    LET base == [id |-> pt.id,
                 lat |-> pt.lat.val,
                 lon |-> pt.lon.val,
                 radius_m |-> a.radius_m,
                 counts_by_mode |-> counts_by_mode(df),
                 nearest_by_mode |-> nearest_by_mode(df, index)]
    IN  IF a.include_all_nearby
        THEN [key \in DOMAIN base \cup {"nearby_stops"} |->
                 IF key = "nearby_stops"
                 THEN stops_to_records(df, index, a.nearby_limit)
                 ELSE base[key]]
        ELSE base

\* the item put at the head of the list
Aggregate_Prepend ==
    /\ pc = "aggregate"
    /\ results' = <<item_of(point, args, nearby_df, idx)>> \o results
    /\ i' = i + 1
    /\ pc' = "loop"
    /\ UNCHANGED <<stop_type, mode, csv, props, args, idx, point, nearby_df, exc, geo, ovp>>

\* lines 222-234: the property's item is assembled and appended
Aggregate ==
    /\ pc = "aggregate"
    /\ results' = Append(results, item_of(point, args, nearby_df, idx))
    /\ i' = i + 1
    /\ pc' = "loop"
    /\ UNCHANGED <<stop_type, mode, csv, props, args, idx, point, nearby_df, exc, geo, ovp>>

\* lines 236-239: the loop is over and the results are written
WriteOut ==
    /\ pc = "loop"
    /\ i = Len(props)
    /\ pc' = "done"
    /\ UNCHANGED <<stop_type, mode, csv, props, args, idx, i, point, nearby_df, results, exc,
                   geo, ovp>>

Next == BuildIndex \/ QueryPoint \/ Aggregate \/ WriteOut

-----------------------------------------------------------------------------
(* The runs checked: the files, property lists and arguments main is given *)

MaxRows == 2
MaxProps == 2

Seqs(S, n) == UNION { [1..m -> S] : m \in 0..n }

\* stops on the equator: two at one degree either side of longitude 0, one
\* at it, one beyond, one across the antimeridian from longitude -179
GeoRow(lon, code) ==
    [Latitude |-> Num(0), Longitude |-> Num(lon), StopType |-> Text(code)]

GeoRows ==
    { GeoRow(0, <<"B","C","T">>), GeoRow(1, <<"R","L","Y">>), GeoRow(-1, <<"B","C","T">>),
      GeoRow(2, <<"X","Y","Z">>), GeoRow(179, <<"R","L","Y">>) }

GeoPoints ==
    { [id |-> 1, lat |-> Num(0), lon |-> Num(0)],
      [id |-> 2, lat |-> Num(0), lon |-> Num(-179)] }

Radii == {0, MetresPerDegree - 1, MetresPerDegree, 2 * MetresPerDegree}

DefaultArgs(radius_m) ==
    [radius_m |-> radius_m, include_all_nearby |-> FALSE, nearby_limit |-> 50]

\* headers, each column with the cells a row may hold in it
Headers ==
    { [Latitude |-> {Null, Text(<<"x">>), Num(0), Num(95), Inf},
       Longitude |-> {Null, Num(0), Num(200)},
       StopType |-> {Null, Text(<<"B","C","T">>)}],
      [lat |-> {Text(<<"7">>), Text(<<"n","a">>), Num(10)},
       lon |-> {Null, Num(0)},
       CommonName |-> {Text(<<"A">>)}],
      [Latitude |-> {Null, Num(0)},
       lat |-> {Num(10)},
       Longitude |-> {Num(0)},
       long |-> {Num(200)},
       ATCOCode |-> {Text(<<"9">>)}],
      [Latitude |-> {Num(0)}, StopType |-> {Text(<<"B","C","T">>)}],
      [Longitude |-> {Num(0)}],
      [CommonName |-> {Text(<<"A">>)}, Easting |-> {Num(0)}] }

RowsOf(h) ==
    {r \in [DOMAIN h -> UNION {h[c] : c \in DOMAIN h}] : \A c \in DOMAIN h : r[c] \in h[c]}

EmptyFile == [columns |-> {}, rows |-> <<>>]

BuildFiles ==
    {EmptyFile} \cup
    UNION { { [columns |-> DOMAIN h, rows |-> rows] : rows \in Seqs(RowsOf(h), MaxRows) } :
            h \in Headers }

PolePoint == [id |-> 1, lat |-> Num(90), lon |-> Num(0)]

InitMain ==
    /\ stop_type = Null /\ mode = "pending"
    /\ pc = "start"
    /\ idx = Unset /\ i = 0 /\ point = Unset /\ nearby_df = <<>>
    /\ results = <<>> /\ exc = "none"
    /\ geo = Unset /\ ovp = Unset

\* well-formed files of equatorial stops, queried from several points and radii
InitGeo ==
    /\ InitMain
    /\ csv \in { [columns |-> {"Latitude", "Longitude", "StopType"}, rows |-> rows] :
                    rows \in Seqs(GeoRows, MaxRows) }
    /\ props \in Seqs(GeoPoints, MaxProps)
    /\ args \in {DefaultArgs(r) : r \in Radii}

\* files of every shape, queried once from the pole
InitBuild ==
    /\ InitMain
    /\ csv \in BuildFiles
    /\ props = <<PolePoint>>
    /\ args = DefaultArgs(90 * MetresPerDegree)

\* --include_all_nearby with several values of --nearby_limit
NearbyLimits == {-1, 0, 1, 50}

InitListing ==
    /\ InitMain
    /\ csv = [columns |-> {"Latitude", "Longitude", "StopType"},
              rows |-> <<GeoRow(1, <<"R","L","Y">>), GeoRow(0, <<"B","C","T">>)>>]
    /\ props = <<[id |-> 1, lat |-> Num(0), lon |-> Num(0)]>>
    /\ args \in { [radius_m |-> 2 * MetresPerDegree, include_all_nearby |-> TRUE,
                    nearby_limit |-> n] : n \in NearbyLimits }

\* entries of the properties file, well-formed and not
PointCandidates ==
    { [id |-> 1, lat |-> Num(0), lon |-> Num(0)],
      [id |-> 2, lon |-> Num(0)],
      [id |-> 3, lat |-> Null, lon |-> Num(0)],
      [id |-> 4, lat |-> Num(0), lon |-> Text(<<"x">>)],
      [id |-> 5, lat |-> Text(<<"0">>), lon |-> Num(1)],
      [id |-> 6, lat |-> Inf, lon |-> Num(0)],
      [id |-> 7, lat |-> Num(0), lon |-> Text(<<"i","n","f">>)] }

\* a one-stop file queried from entries of every kind
InitPoints ==
    /\ InitMain
    /\ csv = [columns |-> {"Latitude", "Longitude", "StopType"},
              rows |-> <<GeoRow(0, <<"B","C","T">>)>>]
    /\ props \in Seqs(PointCandidates, MaxProps)
    /\ args = DefaultArgs(MetresPerDegree)

Init == InitGeo \/ InitBuild \/ InitListing \/ InitPoints

Spec == Init /\ [][Next]_vars

-----------------------------------------------------------------------------
(* Claims about index construction, checked under Spec *)

Resolves(file, candidates) == \E k \in 1..Len(candidates) : candidates[k] \in file.columns

Resolvable(file) == Resolves(file, LatCandidates) /\ Resolves(file, LonCandidates)

C5_CoordinateValidity ==
    idx # Unset =>
        \A k \in 1..Len(idx.df) :
            LET la == idx.df[k][idx.lat_col]
                lo == idx.df[k][idx.lon_col]
            IN  /\ la.kind = "num" /\ -90 <= la.val /\ la.val <= 90
                /\ lo.kind = "num" /\ -180 <= lo.val /\ lo.val <= 180

\* a cell that is present and that numeric coercion accepts
Coercible(cell) == to_numeric(cell).kind # "null"

\* the rows of the file with both coordinates present and coercible, in order
ValidRows(file) ==
    LET la == infer_col(file.columns, LatCandidates)
        lo == infer_col(file.columns, LonCandidates)
        valid(r) == Coercible(r[la]) /\ Coercible(r[lo])
    IN  SelectSeq(file.rows, valid)

\* C6 (row-level errors never abort): with both coordinate columns resolved,
\* construction succeeds, and the index holds exactly the rows whose
\* coordinates are both present and coercible, in their order, position k
\* of the spatial structure being row k of the table.
C6_RowErrorsNeverAbort ==
    (pc # "start" /\ Resolvable(csv)) =>
        /\ idx # Unset
        /\ Len(idx.df) = Len(ValidRows(csv))
        /\ Len(idx.tree) = Len(idx.df)
        /\ \A k \in 1..Len(idx.df) :
            /\ \A c \in csv.columns \ {idx.lat_col, idx.lon_col} :
                    idx.df[k][c] = ValidRows(csv)[k][c]
            /\ idx.df[k][idx.lat_col] = to_numeric(ValidRows(csv)[k][idx.lat_col])
            /\ idx.df[k][idx.lon_col] = to_numeric(ValidRows(csv)[k][idx.lon_col])
            /\ idx.tree[k] = [lat |-> idx.df[k][idx.lat_col].val,
                              lon |-> idx.df[k][idx.lon_col].val]

\* C7 (empty dataset): with the coordinate columns resolved and no valid row,
\* construction succeeds with an empty index, and every query on it gives an
\* empty result set, empty counts and empty nearest-by-mode, with no error.
C7_EmptyDataset ==
    (pc # "start" /\ Resolvable(csv) /\ ValidRows(csv) = <<>>) =>
        /\ exc = "none"
        /\ idx # Unset
        /\ idx.df = <<>>
        /\ nearby_df = <<>>
        /\ \A k \in 1..Len(results) :
            results[k].counts_by_mode = <<>> /\ results[k].nearest_by_mode = <<>>

-----------------------------------------------------------------------------
(* Claims about the radius query, checked under Spec *)

QueryPt == [lat |-> point.lat.val, lon |-> point.lon.val]

\* C8 (radius membership, boundary included): the result set holds exactly
\* the indexed stops whose great-circle distance to the query point is at
\* most radius_m, each once, a stop at exactly radius_m among them, each
\* with that distance reported.
C8_RadiusMembership ==
    pc = "aggregate" =>
        LET inside == {k \in 1..Len(idx.tree) :
                          haversine(idx.tree[k], QueryPt) * MetresPerDegree <= args.radius_m}
        IN  /\ {nearby_df[j]["_ord"] : j \in 1..Len(nearby_df)} = {k - 1 : k \in inside}
            /\ Len(nearby_df) = Cardinality(inside)
            /\ \A j \in 1..Len(nearby_df) :
                /\ nearby_df[j]["dist_m"] <= args.radius_m
                /\ nearby_df[j]["dist_m"] =
                     haversine(idx.tree[nearby_df[j]["_ord"] + 1], QueryPt) * MetresPerDegree

\* a stop exactly on the boundary is returned while another is left out
C8_Witness ==
    /\ pc = "aggregate"
    /\ args.radius_m > 0
    /\ \E j \in 1..Len(nearby_df) : nearby_df[j]["dist_m"] = args.radius_m
    /\ Len(nearby_df) < Len(idx.tree)

\* the stops of a result set, by ordinal, with their reported distances
Members(df) == {[ord |-> df[j]["_ord"], dist_m |-> df[j]["dist_m"]] : j \in 1..Len(df)}

\* C9 (radius monotonicity): for one index and one query point, every stop
\* returned at a radius is returned, with the same distance, at every larger
\* radius.
C9_RadiusMonotonicity ==
    pc = "aggregate" =>
        \A r \in Radii :
            \A other \in query_nearby_stops(QueryPt.lat, QueryPt.lon, idx, r) :
                /\ r > args.radius_m => Members(nearby_df) \subseteq Members(other)
                /\ r < args.radius_m => Members(other) \subseteq Members(nearby_df)

\* a non-empty result set that a larger radius enlarges
C9_Witness ==
    /\ pc = "aggregate"
    /\ nearby_df # <<>>
    /\ \E r \in Radii :
        /\ r > args.radius_m
        /\ \E other \in query_nearby_stops(QueryPt.lat, QueryPt.lon, idx, r) :
                Len(other) > Len(nearby_df)

\* C10 (distance ordering): a result set is in ascending order of reported
\* distance.
C10_DistanceOrdering ==
    pc = "aggregate" =>
        \A k \in 1..(Len(nearby_df) - 1) : nearby_df[k]["dist_m"] <= nearby_df[k + 1]["dist_m"]

\* the nearer stop comes first although it is the later row of the index
C10_Witness ==
    /\ pc = "aggregate"
    /\ Len(nearby_df) = 2
    /\ nearby_df[1]["dist_m"] < nearby_df[2]["dist_m"]
    /\ nearby_df[1]["_ord"] > nearby_df[2]["_ord"]

\* C11 (stable tie-break): of two stops of a result set at equal reported
\* distance, the one with the smaller ordinal in the index comes first.
C11_StableTieBreak ==
    pc = "aggregate" =>
        \A j, k \in 1..Len(nearby_df) :
            (j < k /\ nearby_df[j]["dist_m"] = nearby_df[k]["dist_m"]) =>
                nearby_df[j]["_ord"] < nearby_df[k]["_ord"]

-----------------------------------------------------------------------------
(* Claims about the aggregates of a result set, checked under Spec *)

\* the item of the property last processed; nearby_df is still its result set
Appended == pc \in {"loop", "done"} /\ Len(results) > 0

LastItem == results[Len(results)]

ModesPresent(df) == {df[k]["mode"] : k \in 1..Len(df)}

RECURSIVE SumOver(_, _)
SumOver(f, S) ==
    IF S = {} THEN 0
    ELSE LET m == CHOOSE x \in S : TRUE
         IN  f[m] + SumOver(f, S \ {m})

\* C12 (counts consistency): the counts of a result set have one entry for
\* each mode occurring in it, holding the number of its stops of that mode;
\* no entry is zero, the entries add up to the size of the result set, and
\* an empty result set has the empty mapping.
C12_CountsConsistency ==
    Appended =>
        LET counts == LastItem.counts_by_mode
        IN  /\ DOMAIN counts = ModesPresent(nearby_df)
            /\ \A m \in DOMAIN counts :
                    /\ counts[m] = Cardinality({k \in 1..Len(nearby_df) : nearby_df[k]["mode"] = m})
                    /\ counts[m] > 0
            /\ SumOver(counts, DOMAIN counts) = Len(nearby_df)
            /\ (nearby_df = <<>> => DOMAIN counts = {})

\* a result set of a bus stop and a rail stop
C12_Witness ==
    /\ Appended
    /\ Len(nearby_df) = 2
    /\ DOMAIN LastItem.counts_by_mode = {"bus", "rail"}

\* C13 (nearest consistency): the nearest-by-mode mapping has the modes
\* occurring in the result set as its keys, the same keys as the counts; the
\* entry of a mode is the first stop of that mode in result order, and its
\* distance is the least among the stops of that mode.
C13_NearestConsistency ==
    Appended =>
        LET nearest == LastItem.nearest_by_mode
        IN  /\ DOMAIN nearest = ModesPresent(nearby_df)
            /\ DOMAIN nearest = DOMAIN LastItem.counts_by_mode
            /\ \A m \in DOMAIN nearest :
                    /\ \E k \in 1..Len(nearby_df) :
                            /\ nearby_df[k]["mode"] = m
                            /\ \A j \in 1..(k - 1) : nearby_df[j]["mode"] # m
                            /\ nearest[m].distance_m = nearby_df[k]["dist_m"]
                            /\ nearest[m].lat = nearby_df[k][idx.lat_col].val
                            /\ nearest[m].lon = nearby_df[k][idx.lon_col].val
                    /\ \A j \in 1..Len(nearby_df) :
                            nearby_df[j]["mode"] = m => nearest[m].distance_m <= nearby_df[j]["dist_m"]

\* two bus stops at different distances: the entry is the nearer one
C13_Witness ==
    /\ Appended
    /\ Len(nearby_df) = 2
    /\ nearby_df[1]["mode"] = "bus" /\ nearby_df[2]["mode"] = "bus"
    /\ nearby_df[1]["dist_m"] < nearby_df[2]["dist_m"]
    /\ LastItem.nearest_by_mode["bus"].distance_m = nearby_df[1]["dist_m"]

\* C14 (capped listing): an item has the nearby-stops listing exactly when
\* --include_all_nearby is set; the listing is then, for every integer cap N
\* that --nearby_limit accepts, the first N stops of the sorted result set,
\* or all of them when there are fewer, and never longer than N.
C14_CappedListing ==
    Appended =>
        LET N == args.nearby_limit
        IN  /\ ("nearby_stops" \in DOMAIN LastItem) <=> args.include_all_nearby
            /\ "nearby_stops" \in DOMAIN LastItem =>
                    /\ LastItem.nearby_stops =
                            [k \in 1..Min(N, Len(nearby_df)) |->
                                stop_record(nearby_df[k], idx, TRUE)]
                    /\ Len(LastItem.nearby_stops) <= N

-----------------------------------------------------------------------------
(* Claims about the run as a whole, checked under Spec *)

\* C15 (output completeness and order): the k-th item echoes the id,
\* latitude and longitude of the k-th entry of the properties file and the
\* radius, and holds the counts and the nearest stops of a result set of that
\* entry's own query; a run that ends has one item for each entry.
C15_OutputCompleteness ==
    /\ Len(results) <= Len(props)
    /\ pc = "done" => Len(results) = Len(props)
    /\ \A k \in 1..Len(results) :
            LET p == props[k]
                lat == to_float(p, "lat").value
                lon == to_float(p, "lon").value
            IN  /\ results[k].id = get(p, "id")
                /\ results[k].lat = lat.val
                /\ results[k].lon = lon.val
                /\ results[k].radius_m = args.radius_m
                /\ \E out \in query_nearby_stops(lat.val, lon.val, idx, args.radius_m) :
                        /\ results[k].counts_by_mode = counts_by_mode(out)
                        /\ results[k].nearest_by_mode = nearest_by_mode(out, idx)

\* two different points, each with the counts of its own neighbourhood
C15_Witness ==
    /\ pc = "done"
    /\ Len(results) = 2
    /\ results[1].id = 1 /\ results[2].id = 2
    /\ DOMAIN results[1].counts_by_mode # DOMAIN results[2].counts_by_mode

\* C16 (index immutability): once built, the index is changed by no query
\* and no aggregation, so entries of the properties file that name the same
\* point get the same stops counted.
C16_IndexImmutability ==
    /\ [][idx # Unset => idx' = idx]_vars
    /\ [](\A j, k \in 1..Len(results) :
            (props[j].lat = props[k].lat /\ props[j].lon = props[k].lon) =>
                results[j].counts_by_mode = results[k].counts_by_mode)

\* the same point queried twice, with a stop found
C16_Witness ==
    /\ pc = "done"
    /\ Len(results) = 2
    /\ props[1] = props[2]
    /\ nearby_df # <<>>

NonNumeric(p, key) == ~to_float(p, key).ok

\* C17 (query-point fail-fast): an entry whose latitude or longitude is
\* missing or not numeric ends the run before its query is made, and the
\* coordinates a query is made with are finite numbers.
C17_QueryPointFailFast ==
    /\ (/\ pc = "raised" /\ idx # Unset
        /\ (NonNumeric(props[i + 1], "lat") \/ NonNumeric(props[i + 1], "lon"))) =>
            IF i = 0 THEN point = Unset ELSE point.id = props[i].id
    /\ point # Unset => IsFinite(point.lat) /\ IsFinite(point.lon)

\* C18 (build before query, sequential processing): a query is made only
\* on the finished index, and the query of an entry is made only when the
\* items of all entries before it have been appended.
C18_BuildBeforeQuery ==
    /\ (pc \in {"loop", "aggregate", "done"} \/ point # Unset) =>
            /\ idx # Unset
            /\ idx = build_naptan_index(csv).value
    /\ pc \in {"loop", "aggregate"} => Len(results) = i
    /\ pc = "aggregate" =>
            /\ i < Len(props)
            /\ point.id = props[i + 1].id

\* the second entry's query under way, the first entry's item appended
C18_Witness ==
    /\ pc = "aggregate"
    /\ i = 1
    /\ Len(results) = 1
    /\ results[1].id = props[1].id

-----------------------------------------------------------------------------
(* geocoder.py: geocode_address and the Nominatim requests it makes *)

\* Python truth of an optional string
Truthy(s) == s \notin {None, ""}

\* a reply of the server: its status and, for 200, the hits of its JSON body
Replies ==
    { [status |-> 200, body |-> b] : b \in {<<>>, <<"A">>, <<"B", "A">>} } \cup
    { [status |-> s, body |-> <<>>] : s \in {403, 429, 500} }

\* nominatim_geocode, r1 and r2 being the replies to its first and second
\* request: a 403 under a country filter is asked again without the filter;
\* then 403 and 429 are a RuntimeError, any other error status the
\* HTTPError of raise_for_status, and a good reply returns its hits
nominatim_geocode(query, countrycodes, r1, r2) ==
    LET r == IF r1.status = 403 /\ Truthy(countrycodes) THEN r2 ELSE r1
    IN  IF r.status = 403 THEN Raise("RuntimeError")
        ELSE IF r.status = 429 THEN Raise("RuntimeError")
        ELSE IF r.status >= 400 THEN Raise("HTTPError")
        ELSE Return(r.body)

\* lines 100-114: the variants of the address, in the order they are tried;
\* a variant is the list of the parts that ", " joins
queries_to_try(address, city, country) ==
    IF address.has_postcode \/ address.has_location \/ address.commas >= 2
    THEN <<<<address.text>>>> \o
         (IF ~address.has_postcode /\ Truthy(country)
          THEN <<<<address.text, country>>>> ELSE <<>>)
    ELSE (IF Truthy(city)
          THEN <<<<address.text, city, country>>, <<address.text, city>>>>
          ELSE <<<<address.text, country>>>>) \o
         <<<<address.text>>>>

\* what a call left in the log of calls
call_entry(g, cc, res) ==
    [k |-> g.k, query |-> g.queries[g.k], countrycodes |-> cc,
     out |-> IF res.ok THEN "ok" ELSE res.exc,
     body |-> IF res.ok THEN res.value ELSE <<>>]

\* lines 128-138 and 147-157: the record returned for the top hit
found(query, hits) == [kind |-> "found", input |-> query, top |-> hits[1]]

\* the RuntimeError let out of geocode_address
handle_RuntimeError_Propagate(g, retrying) ==
    [g EXCEPT !.pc = "raised", !.exc = "RuntimeError"]

\* lines 141-160: a RuntimeError of the first call of a variant leads to one
\* more call without the country filter when a filter was given, and
\* otherwise, as a RuntimeError of that second call does, to the next variant
handle_RuntimeError(g, retrying) ==
    IF ~retrying /\ Truthy(g.countrycodes)
    THEN [g EXCEPT !.pc = "retry"]
    ELSE [g EXCEPT !.pc = "try", !.k = g.k + 1]

\* lines 123-160: what a call of nominatim_geocode for the current variant
\* leads to
after_call(g, res, retrying) ==
    IF res.ok /\ Len(res.value) > 0
    THEN [g EXCEPT !.pc = "returned", !.result = found(g.queries[g.k], res.value)]
    ELSE IF res.ok
    THEN [g EXCEPT !.pc = "try", !.k = g.k + 1]
    ELSE IF IsInstance(res.exc, "RuntimeError")
    THEN handle_RuntimeError(g, retrying)
    ELSE [g EXCEPT !.pc = "raised", !.exc = res.exc]

mainIdle == UNCHANGED <<stop_type, mode, pc, mainVars>>

\* lines 119-140: the current variant is asked for, under the caller's filter
GeoTry ==
    /\ geo # Unset
    /\ geo.pc = "try"
    /\ geo.k <= Len(geo.queries)
    /\ \E r1, r2 \in Replies :
            LET res == nominatim_geocode(geo.queries[geo.k], geo.countrycodes, r1, r2)
                logged == [geo EXCEPT !.calls = Append(@, call_entry(geo, geo.countrycodes, res))]
            IN  geo' = after_call(logged, res, FALSE)
    /\ mainIdle /\ UNCHANGED ovp

\* lines 143-160: the current variant is asked for again, without the filter
GeoRetry ==
    /\ geo # Unset
    /\ geo.pc = "retry"
    /\ \E r1, r2 \in Replies :
            LET res == nominatim_geocode(geo.queries[geo.k], None, r1, r2)
                logged == [geo EXCEPT !.calls = Append(@, call_entry(geo, None, res))]
            IN  geo' = after_call(logged, res, TRUE)
    /\ mainIdle /\ UNCHANGED ovp

\* line 162: no variant is left
GeoGiveUp ==
    /\ geo # Unset
    /\ geo.pc = "try"
    /\ geo.k > Len(geo.queries)
    /\ geo' = [geo EXCEPT !.pc = "returned", !.result = [kind |-> "none"]]
    /\ mainIdle /\ UNCHANGED ovp

NextGeocode == GeoTry \/ GeoRetry \/ GeoGiveUp

\* addresses that look complete or not, with and without a city, a country
\* and a country filter
Addresses ==
    { [text |-> "addr", has_postcode |-> hp, has_location |-> hl, commas |-> c] :
        hp \in BOOLEAN, hl \in BOOLEAN, c \in {0, 2} }

InitIdle ==
    /\ stop_type = Null /\ mode = "pending" /\ pc = "idle"
    /\ csv = Unset /\ props = <<>> /\ args = Unset /\ idx = Unset /\ i = 0
    /\ point = Unset /\ nearby_df = <<>> /\ results = <<>> /\ exc = "none"

InitGeocode ==
    /\ InitIdle
    /\ ovp = Unset
    /\ \E address \in Addresses, city \in {None, "Manchester"}, country \in {"UK", ""},
          countrycodes \in {"gb", "", None} :
            geo = [pc |-> "try", k |-> 1, countrycodes |-> countrycodes,
                   queries |-> queries_to_try(address, city, country),
                   calls |-> <<>>, result |-> Unset, exc |-> "none"]

SpecGeocode == InitGeocode /\ [][NextGeocode]_vars

-----------------------------------------------------------------------------
(* Claim about geocode_address, checked under SpecGeocode *)

\* the a-th call is the first call of its variant, under the caller's
\* filter, and its variant is the one after the variant of the call before
FirstCallOfVariant(calls, a) ==
    /\ calls[a].countrycodes = geo.countrycodes
    /\ calls[a].k = (IF a = 1 THEN 1 ELSE calls[a - 1].k + 1)

\* the a-th call is the one call made again without the filter, after the
\* first call of the same variant raised a RuntimeError under a filter
RetryCall(calls, a) ==
    /\ a > 1
    /\ calls[a].countrycodes = None
    /\ calls[a].k = calls[a - 1].k
    /\ calls[a - 1].out = "RuntimeError"
    /\ calls[a - 1].countrycodes = geo.countrycodes
    /\ Truthy(geo.countrycodes)
    /\ a > 2 => calls[a - 2].k # calls[a].k

Hit(c) == c.out = "ok" /\ c.body # <<>>

\* C19: geocode_address asks for the variants in list order; it returns
\* the top hit of the first variant with a non-empty result and asks for
\* no later one; it returns None when no variant gave a result; a
\* RuntimeError of nominatim_geocode never leaves it, but leads to at most
\* one more call for the same variant, without the country filter and only
\* when a filter was given, and then to the next variant.
C19_GeocodeFallback ==
    geo # Unset =>
        LET calls == geo.calls
            n == Len(calls)
        IN  /\ \A a \in 1..n :
                    /\ calls[a].query = geo.queries[calls[a].k]
                    /\ FirstCallOfVariant(calls, a) \/ RetryCall(calls, a)
                    /\ a < n => ~Hit(calls[a]) /\ calls[a].out \in {"ok", "RuntimeError"}
            /\ geo.exc # "RuntimeError"
            /\ geo.pc = "raised" => geo.exc = calls[n].out /\ geo.result = Unset
            /\ geo.pc = "returned" =>
                    IF \E a \in 1..n : Hit(calls[a])
                    THEN /\ Hit(calls[n])
                         /\ geo.result = [kind |-> "found", input |-> calls[n].query,
                                          top |-> calls[n].body[1]]
                    ELSE /\ geo.result = [kind |-> "none"]
                         /\ {calls[a].k : a \in 1..n} = 1..Len(geo.queries)
            /\ (geo.pc = "try" /\ n > 0) =>
                    /\ geo.k = calls[n].k + 1
                    /\ calls[n].out = "RuntimeError" =>
                            ~Truthy(geo.countrycodes) \/ RetryCall(calls, n)
            /\ geo.pc = "retry" =>
                    /\ calls[n].out = "RuntimeError"
                    /\ FirstCallOfVariant(calls, n)
                    /\ Truthy(geo.countrycodes)

\* the first variant blocked with and without the filter, the second
\* blocked with it and found without it
C19_Witness ==
    /\ geo # Unset
    /\ geo.pc = "returned"
    /\ Len(geo.calls) = 4
    /\ geo.calls[1].out = "RuntimeError" /\ geo.calls[2].out = "RuntimeError"
    /\ geo.calls[3].out = "RuntimeError"
    /\ geo.calls[4].countrycodes = None
    /\ geo.result = [kind |-> "found", input |-> geo.queries[2], top |-> "B"]
    /\ Len(geo.queries) = 3

-----------------------------------------------------------------------------
(* client.py: run_overpass_query under its retry decorator *)

\* int(s) of Python for a str: an optional sign, then digits
int_of(chars) ==
    LET s == strip(chars)
        signed == s # <<>> /\ s[1] \in {"-", "+"}
        digits == IF signed THEN SubSeq(s, 2, Len(s)) ELSE s
    IN  IF digits # <<>> /\ \A k \in 1..Len(digits) : IsDigit(digits[k])
        THEN Return(IF signed /\ s[1] = "-" THEN -ParseDigits(digits) ELSE ParseDigits(digits))
        ELSE Raise("ValueError")

\* lines 15-19: the variable's value as an integer, the default when it is
\* unset (Null) or no integer
_env_int(value, default) ==
    IF value = Null THEN default
    ELSE IF int_of(value.chars).ok THEN int_of(value.chars).value
    ELSE default

\* line 25: the default of OVERPASS_MAX_RETRIES
DefaultMaxRetries == 3

\* tenacity's stop_after_attempt with the test made one attempt late
stop_after_attempt_OffByOne(max_attempt_number, attempt_number) ==
    attempt_number > max_attempt_number

\* tenacity's stop_after_attempt(max_attempt_number), asked after an attempt
stop_after_attempt(max_attempt_number, attempt_number) ==
    attempt_number >= max_attempt_number

\* line 27: retry_if_exception_type((requests.RequestException, OverpassError))
retry_if_exception_type(e) == e \in {"OverpassError", "RequestException"}

OverpassError(msg) == [ok |-> FALSE, exc |-> "OverpassError", msg |-> msg]

\* what an attempt may meet: no reply in time, no connection, or a reply
\* with a status and a body that is a JSON object, other JSON or no JSON
AttemptOutcomes ==
    { [net |-> n, status |-> 0, body |-> "none"] : n \in {"timeout", "error"} } \cup
    { [net |-> "ok", status |-> s, body |-> "html"] : s \in {400, 429, 502, 503, 504} } \cup
    { [net |-> "ok", status |-> 200, body |-> b] : b \in {"object1", "object2", "array", "text"} }

\* lines 30-91: one execution of the function's body
run_overpass_query_body(o) ==
    IF o.net = "timeout" THEN OverpassError("HTTP request timed out")
    ELSE IF o.net = "error" THEN OverpassError("Network error")
    ELSE IF o.status \in {429, 502, 503, 504} THEN OverpassError("Retryable Overpass HTTP")
    ELSE IF o.status >= 400 THEN OverpassError("Overpass HTTP")
    ELSE IF o.body = "text" THEN OverpassError("Invalid JSON from Overpass")
    ELSE IF o.body = "array" THEN [ok |-> FALSE, exc |-> "AttributeError", msg |-> "get"]
    ELSE Return(o.body)

\* the call left with the exception of its last attempt
raised_with(o, res) == [o EXCEPT !.pc = "raised", !.exc = res]

\* lines 24-29: tenacity's loop after an attempt: a result is returned, an
\* exception that is not retried or that meets the stop is raised again
\* (reraise=True), and otherwise the call waits for its next attempt
after_attempt(o, res) ==
    IF res.ok THEN [o EXCEPT !.pc = "returned", !.result = res.value]
    ELSE IF ~retry_if_exception_type(res.exc) THEN raised_with(o, res)
    ELSE IF stop_after_attempt(o.max_attempts, o.attempt_number) THEN raised_with(o, res)
    ELSE [o EXCEPT !.pc = "wait"]

\* an attempt: the request is posted and its outcome handled
OverpassAttempt ==
    /\ ovp # Unset
    /\ ovp.pc = "attempt"
    /\ \E o \in AttemptOutcomes :
            LET res == run_overpass_query_body(o)
            IN  ovp' = after_attempt([ovp EXCEPT !.log = Append(@, [outcome |-> o, res |-> res])], res)
    /\ mainIdle /\ UNCHANGED geo

\* line 26: the wait before the next attempt, at most 10 s
OverpassWait ==
    /\ ovp # Unset
    /\ ovp.pc = "wait"
    /\ ovp' = [ovp EXCEPT !.pc = "attempt", !.attempt_number = @ + 1]
    /\ mainIdle /\ UNCHANGED geo

NextOverpass == OverpassAttempt \/ OverpassWait

\* OVERPASS_MAX_RETRIES unset, or set to one of these strings
MaxRetriesEnv ==
    {Null, Text(<<"1">>), Text(<<"2">>), Text(<<"3">>), Text(<<"0">>), Text(<<"-", "1">>),
     Text(<<"x">>)}

InitOverpass ==
    /\ InitIdle
    /\ geo = Unset
    /\ \E env \in MaxRetriesEnv :
            ovp = [pc |-> "attempt", env |-> env,
                   max_attempts |-> _env_int(env, DefaultMaxRetries),
                   attempt_number |-> 1, log |-> <<>>, result |-> "none", exc |-> Unset]

SpecOverpass == InitOverpass /\ [][NextOverpass]_vars

-----------------------------------------------------------------------------
(* Claim about run_overpass_query, checked under SpecOverpass *)

\* the failures the attempts are retried for
FailureKinds ==
    {"HTTP request timed out", "Network error", "Retryable Overpass HTTP", "Overpass HTTP",
     "Invalid JSON from Overpass"}

Failed(entry) == ~entry.res.ok /\ entry.res.exc = "OverpassError" /\ entry.res.msg \in FailureKinds

\* an outcome the function neither returns from nor reports as an
\* OverpassError: a JSON body that is no object
NotAnObject(entry) == entry.outcome.body = "array"

\* what C20 has in common as stated and as amended, Limit being the number
\* of attempts a call may make
RetryContract(Limit) ==
    ovp # Unset =>
        LET log == ovp.log
            n == Len(log)
        IN  /\ n <= Limit
            /\ ovp.attempt_number = (IF ovp.pc = "attempt" THEN n + 1 ELSE n)
            /\ \A a \in 1..n :
                    /\ (a < n \/ ovp.pc = "wait") => Failed(log[a])
                    /\ log[a].res.ok <=> (log[a].outcome.status = 200
                                            /\ log[a].outcome.body \in {"object1", "object2"})
                    /\ ~log[a].res.ok => Failed(log[a]) \/ NotAnObject(log[a])
            /\ ovp.pc = "returned" => log[n].res.ok /\ ovp.result = log[n].outcome.body
            /\ ovp.pc = "raised" =>
                    /\ ovp.exc = log[n].res
                    /\ Failed(log[n]) => n = Limit
                    /\ ~Failed(log[n]) => NotAnObject(log[n])
            /\ ovp.pc = "wait" => n < Limit

\* C20 as stated: a call makes at most N attempts, N being
\* OVERPASS_MAX_RETRIES (3 by default); it returns the data of the first
\* attempt that succeeds and attempts no more; a failed attempt (timeout,
\* network error, 429/502/503/504, another error status, invalid JSON) is an
\* OverpassError and is retried while attempts remain; after the N-th
\* failed attempt the OverpassError of that attempt is raised.
C20_Original == RetryContract(IF ovp = Unset THEN 0 ELSE Max(ovp.max_attempts, 0))

\* C20 as amended: the same with max(N, 1) attempts in the place of N, a
\* call making its first attempt whatever N is.
C20_BoundedRetry == RetryContract(IF ovp = Unset THEN 1 ELSE Max(ovp.max_attempts, 1))

\* three attempts by default, failing in three ways, the last error raised
C20_Witness ==
    /\ ovp # Unset
    /\ ovp.env = Null
    /\ ovp.pc = "raised"
    /\ Len(ovp.log) = 3
    /\ ovp.log[1].outcome.net = "timeout"
    /\ ovp.log[2].outcome.status = 503
    /\ ovp.log[3].outcome.body = "text"
    /\ ovp.exc = OverpassError("Invalid JSON from Overpass")

====
